---- MODULE Spec2Model ----
(***************************************************************************)
(* A model of the translate package (PO catalog reader and plural-rule     *)
(* compiler) of "OBS Studio.app/Resources".                                *)
(*                                                                         *)
(* Text is modelled as a sequence of one-character strings, so that every  *)
(* scan, slice, concatenation and comparison of the Python code is a       *)
(* sequence operation here.  A token of the plural lexer is such a         *)
(* sequence too (the Python str the generator yields).                     *)
(***************************************************************************)
EXTENDS Integers, Sequences, FiniteSets, TLC

VARIABLES
    \* c2py and the function it returns
    expr,            \* the plural expression handed to c2py
    phase,           \* "text", "compiled" (c2py returned or raised), "called"
    rule,            \* what c2py returned or raised
    called,          \* the n of the last call of the function
    returned,        \* what that call returned or raised
    \* one PoFileReader
    _peek,           \* PoFileReader._peek
    _tokens,         \* what the generator PoFileReader._tokens has left
    pulled,          \* the last __next__: the stream it found, its outcome
    \* the class PoFileTranslations and its instances
    _entries,        \* PoFileTranslations._entries, one dict for the class
    _plural_entries, \* PoFileTranslations._plural_entries, likewise
    _info,           \* self._info of each instance
    status,          \* per instance: "none", "loaded", "failed"
    at_load,         \* per instance: the dicts as its load left them
    compiles,        \* per instance: the calls of c2py made for it
    rule_lookups,    \* per instance: the ngettext calls that reached the rule
    done             \* the last operation on the class and its outcome

plural_vars == <<expr, phase, rule, called, returned>>
reader_vars == <<_peek, _tokens, pulled>>
catalog_vars == <<_entries, _plural_entries, _info, status, at_load, compiles,
                  rule_lookups, done>>
vars == <<plural_vars, reader_vars, catalog_vars>>

(***************************************************************************)
(* Characters                                                              *)
(***************************************************************************)
DigitSeq == <<"0", "1", "2", "3", "4", "5", "6", "7", "8", "9">>
Digits == {DigitSeq[i] : i \in 1..10}
Lower == {"a", "b", "c", "d", "e", "f", "g", "h", "i", "j", "k", "l", "m",
          "n", "o", "p", "q", "r", "s", "t", "u", "v", "w", "x", "y", "z"}
Upper == {"A", "B", "C", "D", "E", "F", "G", "H", "I", "J", "K", "L", "M",
          "N", "O", "P", "Q", "R", "S", "T", "U", "V", "W", "X", "Y", "Z"}
Alpha == Lower \cup Upper
\* \w of the re module, on the ASCII inputs of the model
WordChars == Alpha \cup Digits \cup {"_"}
\* str.isspace / str.lstrip / str.strip whitespace
Space == {" ", "\t", "\n", "\r", "\f", "VT"}

DigitVal(c) == (CHOOSE i \in 1..10 : DigitSeq[i] = c) - 1

\* s[i:] and s[:i] of Python, 0-based i with 0 <= i
From(s, i) == SubSeq(s, i + 1, Len(s))
Upto(s, i) == SubSeq(s, 1, IF i < Len(s) THEN i ELSE Len(s))

RECURSIVE Concat(_)
\* ''.join(parts)
Concat(parts) ==
    IF parts = <<>> THEN <<>> ELSE Head(parts) \o Concat(Tail(parts))

(***************************************************************************)
(* plural.py: the lexer of the plural expression                           *)
(***************************************************************************)
\* what the generator does in place of yielding when it meets kind INVALID:
\* the ValueError surfaces at the next(tokens) that reaches this place
InvalidTok == <<"INVALID">>
\* the '' the generator yields last
EndTok == <<>>

RECURSIVE DigitRun(_)
\* the longest prefix of s matched by [0-9]+
DigitRun(s) ==
    IF s # <<>> /\ Head(s) \in Digits THEN <<Head(s)>> \o DigitRun(Tail(s))
    ELSE <<>>

\* \b after a word character: the next character is no word character
Boundary(s) == s = <<>> \/ Head(s) \notin WordChars

\* the OPERATOR alternative: [-*/%+?:] | [><!]=? | == | && | \|\|
OperatorAt(s) ==
    LET c == Head(s)
        two == Len(s) >= 2
    IN  IF c \in {"-", "*", "/", "%", "+", "?", ":"} THEN <<c>>
        ELSE IF c \in {">", "<", "!"}
             THEN IF two /\ s[2] = "=" THEN <<c, "=">> ELSE <<c>>
        ELSE IF two /\ c = "=" /\ s[2] = "=" THEN <<"=", "=">>
        ELSE IF two /\ c = "&" /\ s[2] = "&" THEN <<"&", "&">>
        ELSE IF two /\ c = "|" /\ s[2] = "|" THEN <<"|", "|">>
        ELSE <<>>

RECURSIVE plural_tokenize(_)
\* _tokenize(plural) of plural.py, as the sequence of what the generator
\* yields; it stops at the first INVALID match
plural_tokenize(plural) ==
    IF plural = <<>> THEN <<EndTok>>
    ELSE LET c == Head(plural)
             run == DigitRun(plural)
         IN  IF c \in {" ", "\t"} THEN plural_tokenize(Tail(plural))
             ELSE IF run # <<>> /\ Boundary(From(plural, Len(run)))
                  THEN <<run>> \o plural_tokenize(From(plural, Len(run)))
             ELSE IF c = "n" /\ Boundary(Tail(plural))
                  THEN <<(<<"n">>)>> \o plural_tokenize(Tail(plural))
             ELSE IF c \in {"(", ")"}
                  THEN <<(<<c>>)>> \o plural_tokenize(Tail(plural))
             ELSE IF OperatorAt(plural) # <<>>
                  THEN <<OperatorAt(plural)>>
                       \o plural_tokenize(From(plural, Len(OperatorAt(plural))))
             ELSE <<InvalidTok>>

(***************************************************************************)
(* plural.py: _parse, the precedence-climbing translator to Python text    *)
(***************************************************************************)
NoError == "none"

\* _binary_ops: operator -> priority tier
binary_ops(tok) ==
    CASE tok = <<"|", "|">> -> 1
      [] tok = <<"&", "&">> -> 2
      [] tok \in {<<"=", "=">>, <<"!", "=">>} -> 3
      [] tok \in {<<"<">>, <<">">>, <<"<", "=">>, <<">", "=">>} -> 4
      [] tok \in {<<"+">>, <<"-">>} -> 5
      [] tok \in {<<"*">>, <<"/">>, <<"%">>} -> 6
      [] OTHER -> 0

\* nexttok in _binary_ops
IsBinaryOp(tok) == binary_ops(tok) # 0

\* _c2py_ops.get(nexttok, nexttok)
c2py_op(tok) ==
    CASE tok = <<"|", "|">> -> <<"o", "r">>
      [] tok = <<"&", "&">> -> <<"a", "n", "d">>
      [] tok = <<"/">> -> <<"/", "/">>
      [] OTHER -> tok

\* '(%s)' % result
Paren(result) == <<"(">> \o result \o <<")">>

\* the initial value of j in _parse
NoTier == 100

\* a raise out of _parse
Raise(e) ==
    [err |-> e, result |-> <<>>, nexttok |-> <<>>, rest |-> <<>>, j |-> NoTier]

Ok(result, nexttok, rest, j) ==
    [err |-> NoError, result |-> result, nexttok |-> nexttok, rest |-> rest,
     j |-> j]

\* _error(value)
plural_error(value) ==
    IF value # <<>> THEN "unexpected token" ELSE "unexpected end"

\* nexttok = next(tokens)
NextTok(result, tokens) ==
    IF Head(tokens) = InvalidTok THEN Raise("invalid token")
    ELSE Ok(result, Head(tokens), Tail(tokens), NoTier)

IsDecimal(tok) == tok # <<>> /\ \A k \in 1..Len(tok) : tok[k] \in Digits

RECURSIVE IntOf(_)
\* int(nexttok, 10)
IntOf(tok) ==
    IF tok = <<>> THEN 0
    ELSE 10 * IntOf(SubSeq(tok, 1, Len(tok) - 1)) + DigitVal(tok[Len(tok)])

RECURSIVE DecimalOf(_)
\* '%d' % value, value >= 0
DecimalOf(v) ==
    IF v < 10 THEN <<DigitSeq[v + 1]>>
    ELSE DecimalOf(v \div 10) \o <<DigitSeq[(v % 10) + 1]>>

\* a compiler that appends the operator without looking at the one before
keep_chain(result, i, j) == result

\* "Break chained comparisons": the test before an operator is appended
break_chain(result, i, j) ==
    IF i \in {3, 4} /\ j \in {3, 4} THEN Paren(result) ELSE result

\* the test after the operator loop: if j == priority == 4
wrap_relational(result, j, priority) ==
    IF j = priority /\ priority = 4 THEN Paren(result) ELSE result

RECURSIVE parse_nots(_, _)
\* the loop over leading '!' tokens
parse_nots(result, tokens) ==
    LET t == NextTok(result, tokens)
    IN  IF t.err # NoError THEN t
        ELSE IF t.nexttok = <<"!">>
             THEN parse_nots(result \o <<"n", "o", "t", " ">>, t.rest)
        ELSE t

RECURSIVE plural_parse(_, _)
RECURSIVE parse_binary(_, _, _, _, _)

\* the primary: a parenthesised expression, n, or a decimal literal; then
\* the token after it is read
parse_primary(p) ==
    IF p.nexttok = <<"(">>
    THEN LET s == plural_parse(p.rest, -1)
         IN  IF s.err # NoError THEN s
             ELSE IF s.nexttok # <<")">> THEN Raise("unbalanced parenthesis")
             ELSE NextTok(p.result \o Paren(s.result), s.rest)
    ELSE IF p.nexttok = <<"n">> THEN NextTok(p.result \o <<"n">>, p.rest)
    ELSE IF IsDecimal(p.nexttok)
         THEN NextTok(p.result \o DecimalOf(IntOf(p.nexttok)), p.rest)
    ELSE Raise(plural_error(p.nexttok))

\* while nexttok in _binary_ops: ...
parse_binary(result, nexttok, rest, j, priority) ==
    IF ~IsBinaryOp(nexttok) \/ binary_ops(nexttok) < priority
    THEN Ok(result, nexttok, rest, j)
    ELSE LET i == binary_ops(nexttok)
             right == plural_parse(rest, i + 1)
         IN  IF right.err # NoError THEN right
             ELSE parse_binary(break_chain(result, i, j) \o <<" ">>
                                   \o c2py_op(nexttok) \o <<" ">>
                                   \o right.result,
                               right.nexttok, right.rest, i, priority)

\* the ternary at the end of _parse
parse_ternary(b, priority) ==
    LET result == wrap_relational(b.result, b.j, priority)
    IN  IF b.nexttok = <<"?">> /\ priority <= 0
        THEN LET if_true == plural_parse(b.rest, 0)
             IN  IF if_true.err # NoError THEN if_true
                 ELSE IF if_true.nexttok # <<":">>
                      THEN Raise(plural_error(if_true.nexttok))
                 ELSE LET if_false == plural_parse(if_true.rest, -1)
                          text == if_true.result \o <<" ", "i", "f", " ">>
                                  \o result \o <<" ", "e", "l", "s", "e", " ">>
                                  \o if_false.result
                      IN  IF if_false.err # NoError THEN if_false
                          ELSE Ok(IF priority = 0 THEN Paren(text) ELSE text,
                                  if_false.nexttok, if_false.rest, NoTier)
        ELSE Ok(result, b.nexttok, b.rest, NoTier)

\* _parse(tokens, priority)
plural_parse(tokens, priority) ==
    LET p == parse_nots(<<>>, tokens)
        a == parse_primary(p)
        b == parse_binary(a.result, a.nexttok, a.rest, NoTier, priority)
    IN  IF p.err # NoError THEN p
        ELSE IF a.err # NoError THEN a
        ELSE IF b.err # NoError THEN b
        ELSE parse_ternary(b, priority)

(***************************************************************************)
(* What exec() and the call of the generated function do with the text     *)
(* c2py hands them: Python's own lexer, grammar and evaluation, restricted *)
(* to the words _parse can emit.  True and False are the integers 1 and 0  *)
(* (bool is a subclass of int, and the function returns int(...)).         *)
(***************************************************************************)
RECURSIVE AlphaRun(_)
AlphaRun(s) ==
    IF s # <<>> /\ Head(s) \in Alpha THEN <<Head(s)>> \o AlphaRun(Tail(s))
    ELSE <<>>

RECURSIVE PyLex(_)
\* the Python tokens of the generated expression
PyLex(s) ==
    IF s = <<>> THEN <<>>
    ELSE LET c == Head(s)
             two == IF Len(s) >= 2 THEN <<s[1], s[2]>> ELSE <<>>
         IN  IF c = " " THEN PyLex(Tail(s))
             ELSE IF c \in Digits
                  THEN <<DigitRun(s)>> \o PyLex(From(s, Len(DigitRun(s))))
             ELSE IF c \in Alpha
                  THEN <<AlphaRun(s)>> \o PyLex(From(s, Len(AlphaRun(s))))
             ELSE IF two \in {<<"/", "/">>, <<"<", "=">>, <<">", "=">>,
                              <<"=", "=">>, <<"!", "=">>}
                  THEN <<two>> \o PyLex(From(s, 2))
             ELSE <<(<<c>>)>> \o PyLex(Tail(s))

PyCompareOps == {<<"<">>, <<">">>, <<"<", "=">>, <<">", "=">>,
                 <<"=", "=">>, <<"!", "=">>}
PyFail == [ok |-> FALSE, tree |-> <<>>, rest |-> <<>>]
PyNode(tree, rest) == [ok |-> TRUE, tree |-> tree, rest |-> rest]
PyAt(ts, tok) == ts # <<>> /\ Head(ts) = tok

\* the grammar of a Python expression over what c2py generates, one level
\* per precedence: expression (conditional), or_test, and_test, not_test,
\* comparison, arith, term, atom
LevelExpression == 0
LevelOrTest == 1
LevelAndTest == 2
LevelNotTest == 3
LevelComparison == 4
LevelArith == 5
LevelTerm == 6
LevelAtom == 7

\* the operators that continue a level's operand list
PyLevelOps(level) ==
    CASE level = LevelOrTest -> {<<"o", "r">>}
      [] level = LevelAndTest -> {<<"a", "n", "d">>}
      [] level = LevelComparison -> PyCompareOps
      [] level = LevelArith -> {<<"+">>, <<"-">>}
      [] level = LevelTerm -> {<<"*">>, <<"/", "/">>, <<"%">>}
      [] OTHER -> {}

PyJoin(level, op, left, right) ==
    CASE level = LevelOrTest -> <<"or", left, right>>
      [] level = LevelAndTest -> <<"and", left, right>>
      [] OTHER -> <<"bin", op, left, right>>

RECURSIVE py_parse(_, _)
RECURSIVE py_loop(_, _, _, _)

\* operand (op operand)* of one level, left-associative; a comparison keeps
\* its whole chain in one node
py_loop(level, left, links, ts) ==
    IF ts # <<>> /\ Head(ts) \in PyLevelOps(level)
    THEN LET r == py_parse(level + 1, Tail(ts))
         IN  IF ~r.ok THEN PyFail
             ELSE IF level = LevelComparison
                  THEN py_loop(level, left,
                               Append(links, <<Head(ts), r.tree>>), r.rest)
             ELSE py_loop(level, PyJoin(level, Head(ts), left, r.tree), <<>>,
                          r.rest)
    ELSE PyNode(IF links = <<>> THEN left ELSE <<"cmp", left, links>>, ts)

py_parse(level, ts) ==
    IF level = LevelAtom
    THEN \* atom: NUMBER | 'n' | '(' expression ')'
         IF ts = <<>> THEN PyFail
         ELSE IF Head(ts) = <<"(">>
              THEN LET e == py_parse(LevelExpression, Tail(ts))
                   IN  IF e.ok /\ PyAt(e.rest, <<")">>)
                       THEN PyNode(e.tree, Tail(e.rest))
                       ELSE PyFail
         ELSE IF Head(ts) = <<"n">> THEN PyNode(<<"n">>, Tail(ts))
         ELSE IF IsDecimal(Head(ts))
              THEN PyNode(<<"num", IntOf(Head(ts))>>, Tail(ts))
         ELSE PyFail
    ELSE IF level = LevelNotTest
    THEN \* not_test: 'not' not_test | comparison
         IF PyAt(ts, <<"n", "o", "t">>)
         THEN LET r == py_parse(LevelNotTest, Tail(ts))
              IN  IF r.ok THEN PyNode(<<"not", r.tree>>, r.rest) ELSE PyFail
         ELSE py_parse(LevelComparison, ts)
    ELSE LET a == py_parse(level + 1, ts)
         IN  IF ~a.ok THEN PyFail
             ELSE IF level # LevelExpression
                  THEN py_loop(level, a.tree, <<>>, a.rest)
             \* expression: or_test ['if' or_test 'else' expression]
             ELSE IF PyAt(a.rest, <<"i", "f">>)
                  THEN LET cond == py_parse(LevelOrTest, Tail(a.rest))
                       IN  IF cond.ok /\ PyAt(cond.rest, <<"e", "l", "s", "e">>)
                           THEN LET other == py_parse(LevelExpression,
                                                      Tail(cond.rest))
                                IN  IF other.ok
                                    THEN PyNode(<<"if", a.tree, cond.tree,
                                                  other.tree>>, other.rest)
                                    ELSE PyFail
                           ELSE PyFail
             ELSE a

\* the parse of the whole text: exec() raises SyntaxError when there is none
PyParse(text) ==
    LET r == py_parse(LevelExpression, PyLex(text))
    IN  IF r.ok /\ r.rest = <<>> THEN r ELSE PyFail

Abs(a) == IF a < 0 THEN -a ELSE a

\* a // b of Python: the floor of the quotient
PyFloorDiv(a, b) ==
    LET q == Abs(a) \div Abs(b)
        exact == q * Abs(b) = Abs(a)
    IN  IF (a < 0) = (b < 0) THEN q ELSE IF exact THEN -q ELSE -q - 1

\* a % b of Python: a - b * (a // b)
PyMod(a, b) == a - b * PyFloorDiv(a, b)

Truth(b) == IF b THEN 1 ELSE 0

PyCompare(op, a, b) ==
    CASE op = <<"<">> -> a < b
      [] op = <<">">> -> a > b
      [] op = <<"<", "=">> -> a <= b
      [] op = <<">", "=">> -> a >= b
      [] op = <<"=", "=">> -> a = b
      [] op = <<"!", "=">> -> a # b

Val(v) == [ok |-> TRUE, v |-> v]
ZeroDivisionError == [ok |-> FALSE, v |-> 0]

PyArith(op, a, b) ==
    CASE op = <<"+">> -> Val(a + b)
      [] op = <<"-">> -> Val(a - b)
      [] op = <<"*">> -> Val(a * b)
      [] op = <<"/", "/">> -> IF b = 0 THEN ZeroDivisionError
                              ELSE Val(PyFloorDiv(a, b))
      [] op = <<"%">> -> IF b = 0 THEN ZeroDivisionError ELSE Val(PyMod(a, b))

RECURSIVE PyEval(_, _)
RECURSIVE PyChain(_, _, _)

\* a op1 b op2 c ... : each link is evaluated once, left to right, and the
\* chain stops at the first comparison that is false
PyChain(left, links, n) ==
    IF links = <<>> THEN Val(1)
    ELSE LET right == PyEval(Head(links)[2], n)
         IN  IF ~right.ok THEN right
             ELSE IF ~PyCompare(Head(links)[1], left, right.v) THEN Val(0)
             ELSE PyChain(right.v, Tail(links), n)

\* the value of the expression tree at n
PyEval(t, n) ==
    CASE t[1] = "n" -> Val(n)
      [] t[1] = "num" -> Val(t[2])
      [] t[1] = "bin" ->
            LET a == PyEval(t[3], n)
                b == PyEval(t[4], n)
            IN  IF ~a.ok THEN a ELSE IF ~b.ok THEN b
                ELSE PyArith(t[2], a.v, b.v)
      [] t[1] = "cmp" ->
            LET a == PyEval(t[2], n)
            IN  IF ~a.ok THEN a ELSE PyChain(a.v, t[3], n)
      [] t[1] = "not" ->
            LET a == PyEval(t[2], n)
            IN  IF ~a.ok THEN a ELSE Val(Truth(a.v = 0))
      [] t[1] = "and" ->
            LET a == PyEval(t[2], n)
            IN  IF ~a.ok \/ a.v = 0 THEN a ELSE PyEval(t[3], n)
      [] t[1] = "or" ->
            LET a == PyEval(t[2], n)
            IN  IF ~a.ok \/ a.v # 0 THEN a ELSE PyEval(t[3], n)
      [] t[1] = "if" ->
            LET c == PyEval(t[3], n)
            IN  IF ~c.ok THEN c
                ELSE IF c.v # 0 THEN PyEval(t[2], n) ELSE PyEval(t[4], n)

(***************************************************************************)
(* plural.py: c2py                                                         *)
(***************************************************************************)
MaxPluralLen == 1000
MaxDepth == 20

RECURSIVE DeepestParen(_, _)
\* the largest value depth takes in the loop over the characters of result
DeepestParen(text, depth) ==
    IF text = <<>> THEN depth
    ELSE LET d == IF Head(text) = "(" THEN depth + 1
                  ELSE IF Head(text) = ")" THEN depth - 1 ELSE depth
             deeper == DeepestParen(Tail(text), d)
         IN  IF d > deeper THEN d ELSE deeper

\* c2py after result, nexttok = _parse(_tokenize(plural)), r what _parse
\* returned or raised
c2py_check(r) ==
    IF r.err # NoError THEN [err |-> r.err, func |-> <<>>]
    ELSE IF r.nexttok # <<>>
         THEN [err |-> plural_error(r.nexttok), func |-> <<>>]
    ELSE IF DeepestParen(r.result, 0) > MaxDepth
         THEN [err |-> "too complex", func |-> <<>>]
    ELSE IF ~PyParse(r.result).ok
         THEN [err |-> "SyntaxError", func |-> <<>>]
    ELSE [err |-> NoError, func |-> r.result]

\* c2py(plural): the error raised, or the text of the function's expression
c2py(plural) ==
    IF Len(plural) > MaxPluralLen
    THEN [err |-> "too long", func |-> <<>>]
    ELSE c2py_check(plural_parse(plural_tokenize(plural), -1))

\* func(n) of the compiled rule, for an int n: int(<expression>)
plural_func(func, n) == PyEval(PyParse(func).tree, n)

(***************************************************************************)
(* The reference the properties of the compiled rule are measured against: *)
(* the value of the plural expression under the C grammar and C operators  *)
(* (gettext's plural.y).  Not a model of code of this repository.          *)
(***************************************************************************)
CTier(tok) ==
    CASE tok = <<"|", "|">> -> 1
      [] tok = <<"&", "&">> -> 2
      [] tok \in {<<"=", "=">>, <<"!", "=">>} -> 3
      [] tok \in {<<"<">>, <<">">>, <<"<", "=">>, <<">", "=">>} -> 4
      [] tok \in {<<"+">>, <<"-">>} -> 5
      [] tok \in {<<"*">>, <<"/">>, <<"%">>} -> 6
      [] OTHER -> 0

RECURSIVE c_cond(_)
RECURSIVE c_binary(_, _)
RECURSIVE c_binary_loop(_, _, _)
RECURSIVE c_unary(_)

\* '!' unary | '(' exp ')' | 'n' | NUMBER
c_unary(ts) ==
    IF ts = <<>> THEN PyFail
    ELSE IF Head(ts) = <<"!">>
         THEN LET r == c_unary(Tail(ts))
              IN  IF r.ok THEN PyNode(<<"lnot", r.tree>>, r.rest) ELSE PyFail
    ELSE IF Head(ts) = <<"(">>
         THEN LET e == c_cond(Tail(ts))
              IN  IF e.ok /\ PyAt(e.rest, <<")">>)
                  THEN PyNode(e.tree, Tail(e.rest))
                  ELSE PyFail
    ELSE IF Head(ts) = <<"n">> THEN PyNode(<<"n">>, Tail(ts))
    ELSE IF IsDecimal(Head(ts)) THEN PyNode(<<"num", IntOf(Head(ts))>>, Tail(ts))
    ELSE PyFail

\* a left-associative run of the operators of one tier
c_binary_loop(left, ts, tier) ==
    IF ts # <<>> /\ CTier(Head(ts)) = tier
    THEN LET r == c_binary(Tail(ts), tier + 1)
         IN  IF r.ok
             THEN c_binary_loop(<<"op", Head(ts), left, r.tree>>, r.rest, tier)
             ELSE PyFail
    ELSE PyNode(left, ts)

c_binary(ts, tier) ==
    IF tier = 7 THEN c_unary(ts)
    ELSE LET l == c_binary(ts, tier + 1)
         IN  IF l.ok THEN c_binary_loop(l.tree, l.rest, tier) ELSE PyFail

\* exp '?' exp ':' exp, right-associative, below every binary operator
c_cond(ts) ==
    LET c == c_binary(ts, 1)
    IN  IF ~c.ok THEN PyFail
        ELSE IF PyAt(c.rest, <<"?">>)
             THEN LET t == c_cond(Tail(c.rest))
                  IN  IF t.ok /\ PyAt(t.rest, <<":">>)
                      THEN LET f == c_cond(Tail(t.rest))
                           IN  IF f.ok
                               THEN PyNode(<<"cond", c.tree, t.tree, f.tree>>,
                                           f.rest)
                               ELSE PyFail
                      ELSE PyFail
        ELSE c

\* the C parse of a plural expression (its tokens without the final '')
CParse(plural) ==
    LET toks == plural_tokenize(plural)
        r == c_cond(SubSeq(toks, 1, Len(toks) - 1))
    IN  IF r.ok /\ r.rest = <<>> THEN r ELSE PyFail

\* a / b of C: the quotient truncated toward zero
CDiv(a, b) ==
    LET q == Abs(a) \div Abs(b) IN IF (a < 0) = (b < 0) THEN q ELSE -q

\* a % b of C: a - b * (a / b)
CMod(a, b) == a - b * CDiv(a, b)

Undefined == [ok |-> FALSE, v |-> 0]

\* floor = FALSE: the C operators.  floor = TRUE: the same tree, with the
\* quotient and remainder of the generated text's // and %.
RefArith(op, a, b, floor) ==
    CASE op = <<"+">> -> Val(a + b)
      [] op = <<"-">> -> Val(a - b)
      [] op = <<"*">> -> Val(a * b)
      [] op = <<"/">> -> IF b = 0 THEN Undefined
                         ELSE Val(IF floor THEN PyFloorDiv(a, b) ELSE CDiv(a, b))
      [] op = <<"%">> -> IF b = 0 THEN Undefined
                         ELSE Val(IF floor THEN PyMod(a, b) ELSE CMod(a, b))
      [] OTHER -> Val(Truth(PyCompare(op, a, b)))

RECURSIVE RefEval(_, _, _)
RefEval(t, n, floor) ==
    CASE t[1] = "n" -> Val(n)
      [] t[1] = "num" -> Val(t[2])
      [] t[1] = "lnot" ->
            LET a == RefEval(t[2], n, floor)
            IN  IF ~a.ok THEN a ELSE Val(Truth(a.v = 0))
      [] t[1] = "cond" ->
            LET c == RefEval(t[2], n, floor)
            IN  IF ~c.ok THEN c
                ELSE IF c.v # 0 THEN RefEval(t[3], n, floor)
                ELSE RefEval(t[4], n, floor)
      [] t[1] = "op" /\ t[2] = <<"&", "&">> ->
            LET a == RefEval(t[3], n, floor)
                b == RefEval(t[4], n, floor)
            IN  IF ~a.ok THEN a ELSE IF a.v = 0 THEN Val(0)
                ELSE IF ~b.ok THEN b ELSE Val(Truth(b.v # 0))
      [] t[1] = "op" /\ t[2] = <<"|", "|">> ->
            LET a == RefEval(t[3], n, floor)
                b == RefEval(t[4], n, floor)
            IN  IF ~a.ok THEN a ELSE IF a.v # 0 THEN Val(1)
                ELSE IF ~b.ok THEN b ELSE Val(Truth(b.v # 0))
      [] OTHER ->
            LET a == RefEval(t[3], n, floor)
                b == RefEval(t[4], n, floor)
            IN  IF ~a.ok THEN a ELSE IF ~b.ok THEN b
                ELSE RefArith(t[2], a.v, b.v, floor)

\* the value of the expression at n in C; ok = FALSE where C leaves it
\* undefined (a division by zero)
CValue(plural, n) == RefEval(CParse(plural).tree, n, FALSE)

(***************************************************************************)
(* translate/__init__.py: _tokenize, the lexer of the PO lines             *)
(***************************************************************************)
RECURSIVE Lstrip(_)
\* str.lstrip()
Lstrip(s) == IF s # <<>> /\ Head(s) \in Space THEN Lstrip(Tail(s)) ELSE s

RECURSIVE RstripNewline(_)
\* str.rstrip('\n')
RstripNewline(s) ==
    IF s # <<>> /\ s[Len(s)] = "\n"
    THEN RstripNewline(SubSeq(s, 1, Len(s) - 1))
    ELSE s

\* the types of the tokens that are not comments
T_keyword == <<"k", "e", "y", "w", "o", "r", "d">>
T_string == <<"s", "t", "r", "i", "n", "g">>
T_nil == <<"n", "i", "l">>
T_end == <<"e", "n", "d">>
\* where the generator raises PoFileParseError instead of yielding: the
\* error surfaces at the next() that reaches this place
T_raise == <<"raise">>

Token(type, value) == [type |-> type, value |-> value]
END == Token(T_end, <<>>)
NIL == Token(T_nil, <<>>)
LexError(reason) == Token(T_raise, <<reason>>)

RECURSIVE StringEnd(_, _)
\* the index i (0-based) the scan of a quoted string stops at, from i
StringEnd(line, i) ==
    IF i >= Len(line) THEN i
    ELSE IF line[i + 1] = "\"" THEN i
    ELSE StringEnd(line, IF line[i + 1] = "\\" THEN i + 2 ELSE i + 1)

RECURSIVE KeywordEnd(_, _)
\* the index i (0-based) the scan of a keyword stops at, from i
KeywordEnd(line, i) ==
    IF i < Len(line)
       /\ (line[i + 1] \in Alpha \/ line[i + 1] \in Digits
           \/ line[i + 1] \in {"_", "[", "]"})
    THEN KeywordEnd(line, i + 1)
    ELSE i

RECURSIVE tokenize_words(_)
\* "Keywords and strings": the loop while line
tokenize_words(line) ==
    IF line = <<>> THEN <<>>
    ELSE IF Head(line) = "\""
         THEN LET i == StringEnd(line, 1)
              IN  IF i >= Len(line) THEN <<LexError("Unterminated string")>>
                  ELSE <<Token(T_string, SubSeq(line, 2, i))>>
                       \o tokenize_words(Lstrip(From(line, i + 1)))
    ELSE IF Head(line) \in Alpha
         THEN LET i == KeywordEnd(line, 0)
              IN  <<Token(T_keyword, Upto(line, i))>>
                  \o tokenize_words(Lstrip(From(line, i)))
    ELSE <<LexError("Unknown character")>>

\* the tokens of one line
tokenize_line(raw) ==
    LET line == RstripNewline(Lstrip(raw))
    IN  IF line = <<>> \/ \A k \in 1..Len(line) : line[k] \in Space
        THEN <<NIL>>
        ELSE IF line[1] = "#"
             THEN IF Len(line) = 1 \/ line[2] \in Space
                  THEN <<Token(<<"#">>, From(line, 1))>>
                  ELSE IF Len(line) = 2 \/ line[3] \in Space
                       THEN <<Token(Upto(line, 2), From(line, 2))>>
                       ELSE <<LexError("Unknown comment marker")>>
        ELSE tokenize_words(line)

IsRaise(tok) == tok.type = T_raise

RECURSIVE po_tokenize(_)
\* _tokenize(lines), as the sequence of what the generator yields; the
\* generator ends where it raises
po_tokenize(lines) ==
    IF lines = <<>> THEN <<>>
    ELSE LET toks == tokenize_line(Head(lines))
         IN  IF IsRaise(toks[Len(toks)]) THEN toks
             ELSE toks \o po_tokenize(Tail(lines))

(***************************************************************************)
(* OrderedDict: a sequence of <<key, value>> pairs with distinct keys      *)
(***************************************************************************)
Keys(d) == {d[k][1] : k \in 1..Len(d)}
Get(d, key) == d[CHOOSE k \in 1..Len(d) : d[k][1] = key][2]
\* d[key] = value: in place when the key is there, at the end otherwise
Set(d, key, value) ==
    IF key \in Keys(d)
    THEN [k \in 1..Len(d) |-> IF d[k][1] = key THEN <<key, value>> ELSE d[k]]
    ELSE Append(d, <<key, value>>)

(***************************************************************************)
(* translate/__init__.py: PoFileEntry                                      *)
(***************************************************************************)
K_msgctxt == <<"m", "s", "g", "c", "t", "x", "t">>
K_msgid == <<"m", "s", "g", "i", "d">>
K_msgstr == <<"m", "s", "g", "s", "t", "r">>
K_msgid_plural == <<"m", "s", "g", "i", "d", "_", "p", "l", "u", "r", "a", "l">>

\* the keys of PoFileEntry.DEFAULT
DEFAULT == {<<"#">>, <<"#", ".">>, <<"#", ",">>, <<"#", "|">>,
            K_msgctxt, K_msgid, K_msgstr, K_msgid_plural}

\* re.match(r"msgstr\[\d+\]", x) is not None: a match of a prefix of x
is_indexed_msgstr(x) ==
    /\ Len(x) > 7
    /\ Upto(x, 7) = K_msgstr \o <<"[">>
    /\ LET run == DigitRun(From(x, 7))
       IN  run # <<>> /\ Len(x) > 7 + Len(run) /\ x[8 + Len(run)] = "]"

\* the test of PoFileEntry.__init__
entry_keys_known(entries) ==
    \A k \in Keys(entries) : k \in DEFAULT \/ is_indexed_msgstr(k)

BEL == "BEL"
BS == "BS"
VT == "VT"

\* ESCAPES.get(string[j:j+2], None); <<>> stands for None
ESCAPES(two) ==
    IF Len(two) < 2 THEN <<>>
    ELSE CASE two[2] = "\"" -> <<"\"">>
           [] two[2] = "'" -> <<"'">>
           [] two[2] = "\\" -> <<"\\">>
           [] two[2] = "a" -> <<BEL>>
           [] two[2] = "b" -> <<BS>>
           [] two[2] = "f" -> <<"\f">>
           [] two[2] = "n" -> <<"\n">>
           [] two[2] = "r" -> <<"\r">>
           [] two[2] = "t" -> <<"\t">>
           [] two[2] = "v" -> <<VT>>
           [] OTHER -> <<>>

\* string.find(c, i): the 0-based index of the first c at or after i, or -1
Find(string, c, i) ==
    IF \E k \in (i + 1)..Len(string) : string[k] = c
    THEN (CHOOSE k \in (i + 1)..Len(string) :
              /\ string[k] = c
              /\ \A m \in (i + 1)..(k - 1) : string[m] # c) - 1
    ELSE -1

Str(text) == [err |-> NoError, text |-> text]
StrError(e) == [err |-> e, text |-> <<>>]

RECURSIVE unescape_from(_, _, _)
unescape_from(string, i, chunks) ==
    LET j == Find(string, "\\", i)
        raw == ESCAPES(SubSeq(string, j + 1, IF j + 2 <= Len(string)
                                             THEN j + 2 ELSE Len(string)))
    IN  IF j < 0 THEN Str(chunks \o From(string, i))
        ELSE IF raw = <<>> THEN StrError("Unknown escape")
        ELSE unescape_from(string, j + 2,
                           chunks \o SubSeq(string, i + 1, j) \o raw)

\* PoFileEntry.unescape(string)
unescape(string) == unescape_from(string, 0, <<>>)

\* PoFileEntry.__getitem__(key): the default is looked up before the get
entry_getitem(entry, key) ==
    IF key \notin DEFAULT THEN [err |-> "KeyError", lines |-> <<>>]
    ELSE [err |-> NoError,
          lines |-> IF key \in Keys(entry) THEN Get(entry, key) ELSE <<>>]

\* PoFileEntry._getkeyword(key)
getkeyword(entry, key) ==
    LET item == entry_getitem(entry, key)
    IN  IF item.err # NoError THEN StrError(item.err)
        ELSE unescape(Concat(item.lines))

entry_id(entry) == getkeyword(entry, K_msgid)
entry_string(entry) == getkeyword(entry, K_msgstr)
entry_plural_id(entry) == getkeyword(entry, K_msgid_plural)

\* str(n) of an int
StrOfInt(n) == IF n < 0 THEN <<"-">> \o DecimalOf(-n) ELSE DecimalOf(n)

\* PoFileEntry.plural_form(n)
plural_form(entry, n) ==
    getkeyword(entry, K_msgstr \o <<"[">> \o StrOfInt(n) \o <<"]">>)

(***************************************************************************)
(* translate/__init__.py: PoFileReader                                     *)
(***************************************************************************)
\* the state a step of __next__ leaves the reader in, the entry collected
\* so far, and the PoFileParseError raised (NoError when none)
Reader(err, entry, peek, tokens) ==
    [err |-> err, entry |-> entry, peek |-> peek, tokens |-> tokens,
     p |-> peek, lines |-> <<>>]

\* PoFileReader._next(): p is the token returned.  When the generator
\* raises, _peek keeps its value and the generator is finished.
reader_next(peek, tokens) ==
    IF tokens = <<>>
    THEN [Reader(NoError, <<>>, END, <<>>) EXCEPT !.p = peek]
    ELSE IF IsRaise(Head(tokens))
         THEN Reader(Head(tokens).value[1], <<>>, peek, <<>>)
    ELSE [Reader(NoError, <<>>, Head(tokens), Tail(tokens)) EXCEPT !.p = peek]

\* self._peek.type.startswith('#')
IsComment(tok) == tok.type # <<>> /\ tok.type[1] = "#"

\* a reader that never looks for a subtype collected before
never_discontinuous(type, entry) == FALSE

\* the test before a comment run is collected
discontinuous(type, entry) == type \in Keys(entry)

\* the test before a keyword is collected
duplicate_keyword(type, entry) == type \in Keys(entry)

RECURSIVE collect_run(_, _, _, _)
\* lines = [self._next().value]; while self._peek.type == key: append
collect_run(key, lines, peek, tokens) ==
    LET n == reader_next(peek, tokens)
    IN  IF n.err # NoError THEN n
        ELSE IF n.peek.type = key
             THEN collect_run(key, Append(lines, n.p.value), n.peek, n.tokens)
        ELSE [n EXCEPT !.lines = Append(lines, n.p.value)]

RECURSIVE read_comments(_, _, _)
\* "Comments"
read_comments(entry, peek, tokens) ==
    IF ~IsComment(peek) THEN Reader(NoError, entry, peek, tokens)
    ELSE IF discontinuous(peek.type, entry)
         THEN Reader("Discontinuous comment", entry, peek, tokens)
    ELSE LET run == collect_run(peek.type, <<>>, peek, tokens)
         IN  IF run.err # NoError THEN run
             ELSE read_comments(Set(entry, peek.type, run.lines),
                                run.peek, run.tokens)

RECURSIVE collect_strings(_, _, _)
\* while self._peek.type == 'string': lines.append(self._next().value)
collect_strings(lines, peek, tokens) ==
    IF peek.type # T_string
    THEN [Reader(NoError, <<>>, peek, tokens) EXCEPT !.lines = lines]
    ELSE LET n == reader_next(peek, tokens)
         IN  IF n.err # NoError THEN n
             ELSE collect_strings(Append(lines, n.p.value), n.peek, n.tokens)

RECURSIVE read_keywords(_, _, _)
\* "Keywords"
read_keywords(entry, peek, tokens) ==
    IF peek.type # T_keyword THEN Reader(NoError, entry, peek, tokens)
    ELSE IF duplicate_keyword(peek.type, entry)
         THEN Reader("Duplicate keyword", entry, peek, tokens)
    ELSE LET n == reader_next(peek, tokens)
             strings == collect_strings(<<>>, n.peek, n.tokens)
         IN  IF n.err # NoError THEN n
             ELSE IF strings.err # NoError THEN strings
             ELSE IF strings.lines = <<>>
                  THEN Reader("No strings after keyword", entry,
                              strings.peek, strings.tokens)
             ELSE read_keywords(Set(entry, n.p.value, strings.lines),
                                strings.peek, strings.tokens)

RECURSIVE skip_blank(_, _, _)
\* while self._peek.type == 'nil': self._next()
skip_blank(entry, peek, tokens) ==
    IF peek.type # T_nil THEN Reader(NoError, entry, peek, tokens)
    ELSE LET n == reader_next(peek, tokens)
         IN  IF n.err # NoError THEN n
             ELSE skip_blank(entry, n.peek, n.tokens)

StopIteration == "StopIteration"

\* return self.factory(entry), b the reader after "End of Entry"
make_entry(b) ==
    IF b.err # NoError THEN b
    ELSE IF ~entry_keys_known(b.entry)
         THEN Reader("Unknown comment or keyword", b.entry, b.peek, b.tokens)
    ELSE b

\* "End of Entry", k the reader after "Keywords"
end_of_entry(k) ==
    IF k.err # NoError THEN k
    ELSE IF k.peek.type \notin {T_nil, T_end}
         THEN Reader("Expected end of entry", k.entry, k.peek, k.tokens)
    ELSE make_entry(skip_blank(k.entry, k.peek, k.tokens))

\* "Keywords" and what follows, c the reader after "Comments"
after_comments(c) ==
    IF c.err # NoError THEN c
    ELSE end_of_entry(read_keywords(c.entry, c.peek, c.tokens))

\* PoFileReader.__next__()
reader_pull(peek, tokens) ==
    IF peek.type = T_end THEN Reader(StopIteration, <<>>, peek, tokens)
    ELSE after_comments(read_comments(<<>>, peek, tokens))

\* PoFileReader.__init__: "prime the pump"
reader_init(lines) == reader_next(END, po_tokenize(lines))

(***************************************************************************)
(* translate/__init__.py: PoFileTranslations                               *)
(***************************************************************************)
\* a dict: a function from its keys; the empty dict is the empty function
EmptyDict == <<>>
DictSet(d, key, value) ==
    [x \in (DOMAIN d) \cup {key} |-> IF x = key THEN value ELSE d[x]]
DictDel(d, key) == [x \in (DOMAIN d) \ {key} |-> d[x]]

RECURSIVE Rstrip(_)
Rstrip(s) ==
    IF s # <<>> /\ s[Len(s)] \in Space THEN Rstrip(SubSeq(s, 1, Len(s) - 1))
    ELSE s

\* str.strip()
Strip(s) == Rstrip(Lstrip(s))

RECURSIVE Split(_, _)
\* s.split(c) for a one-character separator c
Split(s, c) ==
    LET j == Find(s, c, 0)
    IN  IF j < 0 THEN <<s>> ELSE <<Upto(s, j)>> \o Split(From(s, j + 1), c)

RECURSIVE Join(_, _)
\* sep.join(parts)
Join(sep, parts) ==
    IF parts = <<>> THEN <<>>
    ELSE IF Len(parts) = 1 THEN parts[1]
    ELSE parts[1] \o sep \o Join(sep, Tail(parts))

\* what iterating the PoFileReader yields to the loop of _parse: the
\* entries in order, and how the iteration ends (StopIteration, or the
\* PoFileParseError that leaves the loop)
Feed(err, yielded) == [err |-> err, yielded |-> yielded]

RECURSIVE iterate(_, _, _)
iterate(peek, tokens, yielded) ==
    LET r == reader_pull(peek, tokens)
    IN  IF r.err # NoError THEN Feed(r.err, yielded)
        ELSE iterate(r.peek, r.tokens, Append(yielded, r.entry))

\* PoFileReader(PoFileEntry, fp) and the iteration over it
read_file(lines) ==
    LET r == reader_init(lines)
    IN  IF r.err # NoError THEN Feed(r.err, <<>>)
        ELSE iterate(r.peek, r.tokens, <<>>)

\* the state of a catalog's three dicts, and the exception that ended the
\* operation (NoError when none)
Maps(err, entries, plural_entries, info) ==
    [err |-> err, entries |-> entries, plural_entries |-> plural_entries,
     info |-> info]

KeyError == "KeyError"

RECURSIVE store_entries(_, _, _)
\* the body of "for entry in parser"
store_entries(m, yielded, enderr) ==
    IF yielded = <<>>
    THEN IF enderr = StopIteration THEN m ELSE [m EXCEPT !.err = enderr]
    ELSE LET entry == Head(yielded)
             id == entry_id(entry)
             pid == entry_plural_id(entry)
             m1 == [m EXCEPT !.entries = DictSet(@, id.text, entry)]
             \* entry.plural_id is a str, never None: the test always passes
             m2 == [m1 EXCEPT !.plural_entries = DictSet(@, pid.text, entry)]
         IN  IF id.err # NoError THEN [m EXCEPT !.err = id.err]
             ELSE IF pid.err # NoError THEN [m1 EXCEPT !.err = pid.err]
             ELSE store_entries(m2, Tail(yielded), enderr)

RECURSIVE store_info(_, _)
\* the loop over the lines of the header's msgstr
store_info(info, lines) ==
    IF lines = <<>> THEN info
    ELSE LET parts == Split(Head(lines), ":")
         IN  IF Len(parts) < 2 THEN store_info(info, Tail(lines))
             ELSE store_info(
                      DictSet(info, Strip(parts[1]),
                              Join(<<" ", ":", " ">>,
                                   [k \in 1..(Len(parts) - 1) |->
                                       Strip(parts[k + 1])])),
                      Tail(lines))

\* the header: meta_entry = self._entries['']
store_header(m) ==
    IF <<>> \notin DOMAIN m.entries THEN [m EXCEPT !.err = KeyError]
    ELSE LET meta_entry == m.entries[<<>>]
             string == entry_string(meta_entry)
             m1 == [m EXCEPT !.entries = DictDel(@, <<>>)]
         IN  IF string.err # NoError THEN [m1 EXCEPT !.err = string.err]
             ELSE [m1 EXCEPT !.info = store_info(@, Split(string.text, "\n"))]

\* PoFileTranslations._parse(fp), on the dicts it finds
catalog_parse(entries, plural_entries, info, feed) ==
    LET m == store_entries(Maps(NoError, entries, plural_entries, info),
                           feed.yielded, feed.err)
    IN  IF m.err # NoError THEN m ELSE store_header(m)

K_Plural_Forms ==
    <<"P", "l", "u", "r", "a", "l", "-", "F", "o", "r", "m", "s">>
K_plural_eq == <<"p", "l", "u", "r", "a", "l", "=">>

\* [^;\r\n]
RuleChar(c) == c \notin {";", "\r", "\n"}

RECURSIVE RuleRun(_)
\* the longest prefix matched by [^;\r\n]+
RuleRun(s) ==
    IF s # <<>> /\ RuleChar(Head(s)) THEN <<Head(s)>> \o RuleRun(Tail(s))
    ELSE <<>>

\* whether .*plural=([^;\r\n]+)(;.*|$) matches with "plural=" at 0-based p
\* (a directive holds no newline: it is a piece of a split on '\n')
RuleAt(s, p) ==
    /\ p + 7 <= Len(s)
    /\ SubSeq(s, p + 1, p + 7) = K_plural_eq
    /\ LET run == RuleRun(From(s, p + 7))
           after == From(s, p + 7 + Len(run))
       IN  run # <<>> /\ (after = <<>> \/ Head(after) = ";")

\* re.sub(r'.*plural=([^;\r\n]+)(;.*|$)', r'\1', form_directive): the
\* greedy .* leaves the last "plural=" that matches, and the match runs to
\* the end of the directive
sub_plural(s) ==
    LET ps == {p \in 0..Len(s) : RuleAt(s, p)}
    IN  IF ps = {} THEN s
        ELSE RuleRun(From(s, 7 + (CHOOSE p \in ps : \A q \in ps : q <= p)))

\* what a lookup returns or raises; reached tells whether it got as far as
\* compiling the rule
Result(err, text, reached) ==
    [err |-> err, text |-> text, reached |-> reached]

\* PoFileTranslations.gettext(message)
gettext(entries, message) ==
    IF message \in DOMAIN entries
    THEN LET r == entry_string(entries[message])
         IN  Result(r.err, r.text, FALSE)
    ELSE Result(NoError, message, FALSE)

\* PoFileTranslations.ngettext(singular, plural, n)
\* return entry.plural_form(string_index), form what plural_form
\* returned or raised
ngettext_return(form) == Result(form.err, form.text, TRUE)

\* string_index = compiled_rule(n)
ngettext_index(entry, string_index) ==
    IF ~string_index.ok THEN Result("ZeroDivisionError", <<>>, TRUE)
    ELSE ngettext_return(plural_form(entry, string_index.v))

\* compiled_rule = plural.c2py(processed)
ngettext_compiled(entry, compiled_rule, n) ==
    IF compiled_rule.err # NoError THEN Result(compiled_rule.err, <<>>, TRUE)
    ELSE ngettext_index(entry, plural_func(compiled_rule.func, n))

\* processed = re.sub(...), and the test on it
ngettext_rule(entry, form_directive, processed, n) ==
    IF processed = <<>> \/ processed = form_directive
    THEN Result("RuntimeError", <<>>, FALSE)
    ELSE ngettext_compiled(entry, c2py(processed), n)

\* form_directive = self._info['Plural-Forms']
ngettext_entry(entry, info, n) ==
    IF K_Plural_Forms \notin DOMAIN info THEN Result(KeyError, <<>>, FALSE)
    ELSE ngettext_rule(entry, info[K_Plural_Forms],
                       sub_plural(info[K_Plural_Forms]), n)

ngettext(entries, plural_entries, info, singular, plural, n) ==
    IF n = 1
    THEN IF singular \in DOMAIN entries
         THEN ngettext_entry(entries[singular], info, n)
         ELSE Result(KeyError, <<>>, FALSE)
    ELSE IF plural \in DOMAIN plural_entries
         THEN ngettext_entry(plural_entries[plural], info, n)
         ELSE Result(KeyError, <<>>, FALSE)

\* a catalog that kept the evaluator of its first plural lookup
c2py_cached(before) == IF before = 0 THEN 1 ELSE 0

\* the calls of c2py one call of ngettext makes when it gets as far as the
\* rule, whatever was compiled before: nothing is kept between calls
c2py_calls(before) == 1

(***************************************************************************)
(* Bounds and inputs                                                       *)
(***************************************************************************)
MaxN == 3
MaxLit == 2
MaxLines == 4
NumCatalogs == 2
MaxLookups == 2

\* the join of words with single spaces
Words(ws) == Join(<<" ">>, ws)
Quoted(text) == <<"\"">> \o text \o <<"\"">>
Line(ws) == Words(ws) \o <<"\n">>

Atoms == {<<"n">>} \cup {DecimalOf(k) : k \in 1..MaxLit}
BinaryOps == {<<"|", "|">>, <<"&", "&">>, <<"=", "=">>, <<"!", "=">>,
              <<"<">>, <<">">>, <<"<", "=">>, <<">", "=">>,
              <<"+">>, <<"-">>, <<"*">>, <<"/">>, <<"%">>}
RelationalOps == {<<"=", "=">>, <<"!", "=">>, <<"<">>, <<">">>,
                  <<"<", "=">>, <<">", "=">>}
GroupedOps == {<<"&", "&">>, <<"=", "=">>, <<"<">>, <<"-">>, <<"/">>}
Operand1 == Atoms \cup {<<"!">> \o a : a \in Atoms}

\* the expressions compiled: one or two binary operators over n and small
\* literals, with and without a leading '!', a pair of parentheses, or a
\* ternary; and some text that c2py rejects
Exprs ==
    Operand1
    \cup {Words(<<a, o, b>>) : a \in Operand1, o \in BinaryOps, b \in Atoms}
    \cup {Words(<<a, o, <<"!">>, b>>) : a \in Atoms, o \in BinaryOps, b \in Atoms}
    \cup {Words(<<(<<"n">>), o, b, q, c>>) :
            o \in BinaryOps, b \in Atoms, q \in BinaryOps, c \in Atoms}
    \cup {Words(<<(<<"!", "n">>), o, b, q, c>>) :
            o \in RelationalOps, b \in Atoms, q \in RelationalOps, c \in Atoms}
    \cup {Words(<<(<<"(">>), a, o, b, <<")">>, q, c>>) :
            a \in Atoms, o \in GroupedOps, b \in Atoms, q \in GroupedOps,
            c \in Atoms}
    \cup {Words(<<a, o, <<"(">>, b, q, c, <<")">> >>) :
            a \in Atoms, o \in GroupedOps, b \in Atoms, q \in GroupedOps,
            c \in Atoms}
    \cup {Words(<<a, o, b, <<"?">>, c, <<":">>, d>>) :
            a \in Atoms, o \in GroupedOps, b \in Atoms, c \in Atoms,
            d \in Atoms}
    \cup {<<>>, <<"(", "n">>, <<"n", ")">>, <<"n", " ", "=", " ", "1">>,
          <<"n", " ", "?", " ", "1">>, <<"n", "n">>,
          <<"(", "n", " ", "-", " ", "5", ")", " ", "/", " ", "2">>}

(***************************************************************************)
(* SpecPlural: c2py on one expression, then calls of the function          *)
(***************************************************************************)
NoValue == [ok |-> FALSE, v |-> 0]
NoFunc == [err |-> NoError, func |-> <<>>]

PluralIdle ==
    /\ expr = <<>>
    /\ phase = "idle"
    /\ rule = NoFunc
    /\ called = 0
    /\ returned = NoValue

\* c2py(expr)
Compile ==
    /\ phase = "text"
    /\ rule' = c2py(expr)
    /\ phase' = "compiled"
    /\ UNCHANGED <<expr, called, returned, reader_vars, catalog_vars>>

\* func(n), n an int
Call(n) ==
    /\ phase \in {"compiled", "called"}
    /\ rule.err = NoError
    /\ returned' = plural_func(rule.func, n)
    /\ called' = n
    /\ phase' = "called"
    /\ UNCHANGED <<expr, rule, reader_vars, catalog_vars>>

(***************************************************************************)
(* SpecReader: one PoFileReader over a file of at most MaxLines lines      *)
(***************************************************************************)
LineVocab ==
    {<<"\n">>,
     Line(<<(<<"#">>), <<"t">> >>),
     Line(<<(<<"#", ".">>), <<"e">> >>),
     Line(<<(<<"#", ",">>), <<"f">> >>),
     Line(<<K_msgid, Quoted(<<"a">>)>>),
     Line(<<K_msgstr, Quoted(<<"b">>)>>),
     Line(<<Quoted(<<"c">>)>>),
     Line(<<K_msgctxt>>),
     Line(<<(<<"\"", "u">>)>>)}

PoFiles == UNION {[1..k -> LineVocab] : k \in 0..MaxLines}

NoPull == [head |-> <<>>, err |-> "none yet", entry |-> <<>>]

ReaderIdle ==
    /\ _peek = END
    /\ _tokens = <<>>
    /\ pulled = NoPull

\* next(reader)
Pull ==
    \E r \in {reader_pull(_peek, _tokens)} :
        /\ _peek' = r.peek
        /\ _tokens' = r.tokens
        /\ pulled' = [head |-> <<_peek>> \o _tokens, err |-> r.err,
                      entry |-> IF r.err = NoError THEN r.entry ELSE <<>>]
        /\ UNCHANGED <<plural_vars, catalog_vars>>

(***************************************************************************)
(* Spec: the class PoFileTranslations, NumCatalogs instances constructed   *)
(* from PO files, and lookups on the instances that were constructed       *)
(***************************************************************************)
S_rule ==
    <<"P", "l", "u", "r", "a", "l", "-", "F", "o", "r", "m", "s", ":", " ",
      "n", "p", "l", "u", "r", "a", "l", "s", "=", "2", ";", " ", "p", "l",
      "u", "r", "a", "l", "=", "(", "n", " ", "!", "=", " ", "1", ")", ";",
      "\\", "n">>
S_file == <<"f", "i", "l", "e">>
S_files == <<"f", "i", "l", "e", "s">>
S_fichier == <<"f", "i", "c", "h", "i", "e", "r">>
S_fichiers == <<"f", "i", "c", "h", "i", "e", "r", "s">>
S_one == <<"o", "n", "e">>
S_ones == <<"o", "n", "e", "s">>
S_un == <<"u", "n">>
S_a == <<"a">>
S_b == <<"b">>
K_msgstr_0 == K_msgstr \o <<"[", "0", "]">>
K_msgstr_1 == K_msgstr \o <<"[", "1", "]">>

\* msgid "" / msgstr "<text>"
HeaderBlock(text) ==
    <<Line(<<K_msgid, Quoted(<<>>)>>), Line(<<K_msgstr, Quoted(text)>>),
      <<"\n">> >>

\* an entry with both plural forms
B_file ==
    <<Line(<<K_msgid, Quoted(S_file)>>),
      Line(<<K_msgid_plural, Quoted(S_files)>>),
      Line(<<K_msgstr_0, Quoted(S_fichier)>>),
      Line(<<K_msgstr_1, Quoted(S_fichiers)>>), <<"\n">> >>

\* an entry with msgstr[0] alone
B_one ==
    <<Line(<<K_msgid, Quoted(S_one)>>),
      Line(<<K_msgid_plural, Quoted(S_ones)>>),
      Line(<<K_msgstr_0, Quoted(S_un)>>), <<"\n">> >>

B_a == <<Line(<<K_msgid, Quoted(S_a)>>), Line(<<K_msgstr, Quoted(S_b)>>),
         <<"\n">> >>

\* an entry whose second line has an unterminated string
B_bad == <<Line(<<K_msgid, Quoted(<<"c">>)>>),
           Line(<<K_msgstr, <<"\"", "u">> >>)>>

\* the PO files the instances are constructed from
CatalogFiles ==
    <<HeaderBlock(S_rule) \o B_file,
      HeaderBlock(S_rule) \o B_a \o B_one,
      B_a,
      HeaderBlock(S_rule) \o B_a \o B_bad>>

\* what iterating a reader over each file yields
FileFeed == [f \in DOMAIN CatalogFiles |-> read_file(CatalogFiles[f])]

Catalogs == 1..NumCatalogs
Messages == {S_a, <<"z">>}
\* the counts looked up
Counts == {1, 5}
\* the (singular, plural) pairs looked up
Lookups == {<<S_file, S_files>>, <<S_one, S_ones>>, <<S_a, S_files>>}

View(c) ==
    [entries |-> _entries, plural_entries |-> _plural_entries,
     info |-> _info[c]]
NoView == [entries |-> <<>>, plural_entries |-> <<>>, info |-> <<>>]

Done(op, c, err, text, a, b, n, before) ==
    [op |-> op, cat |-> c, err |-> err, text |-> text, a |-> a, b |-> b,
     n |-> n, before |-> before]

CatalogIdle ==
    /\ _entries = EmptyDict
    /\ _plural_entries = EmptyDict
    /\ _info = <<>>
    /\ status = <<>>
    /\ at_load = <<>>
    /\ compiles = <<>>
    /\ rule_lookups = <<>>
    /\ done = Done("none", 0, NoError, <<>>, <<>>, <<>>, 0, NoView)

\* the class after import: its dicts empty, no instance yet
Init ==
    /\ _entries = EmptyDict
    /\ _plural_entries = EmptyDict
    /\ _info = [c \in Catalogs |-> EmptyDict]
    /\ status = [c \in Catalogs |-> "none"]
    /\ at_load = [c \in Catalogs |-> NoView]
    /\ compiles = [c \in Catalogs |-> 0]
    /\ rule_lookups = [c \in Catalogs |-> 0]
    /\ done = Done("none", 0, NoError, <<>>, <<>>, <<>>, 0, NoView)
    /\ PluralIdle
    /\ ReaderIdle

\* PoFileTranslations(fp): NullTranslations.__init__ sets self._info = {}
\* and calls self._parse(fp).  The instances are constructed in the order
\* of their numbers.
Load(c, f) ==
    \E m \in {catalog_parse(_entries, _plural_entries, EmptyDict,
                            FileFeed[f])} :
        /\ status[c] = "none"
        /\ \A d \in 1..(c - 1) : status[d] # "none"
        /\ _entries' = m.entries
        /\ _plural_entries' = m.plural_entries
        /\ _info' = [_info EXCEPT ![c] = m.info]
        /\ status' = [status EXCEPT
                         ![c] = IF m.err = NoError THEN "loaded" ELSE "failed"]
        /\ at_load' = [at_load EXCEPT
                          ![c] = [entries |-> m.entries,
                                  plural_entries |-> m.plural_entries,
                                  info |-> m.info]]
        /\ done' = Done("load", c, m.err, <<>>, <<>>, <<>>, 0,
                        [View(c) EXCEPT !.info = EmptyDict])
        /\ UNCHANGED <<compiles, rule_lookups, plural_vars, reader_vars>>

\* instance.gettext(message)
Gettext(c, message) ==
    \E r \in {gettext(_entries, message)} :
        /\ status[c] = "loaded"
        /\ done' = Done("gettext", c, r.err, r.text, message, <<>>, 0, NoView)
        /\ UNCHANGED <<_entries, _plural_entries, _info, status, at_load,
                       compiles, rule_lookups, plural_vars, reader_vars>>

RECURSIVE Total(_)
Total(counts) ==
    IF counts = <<>> THEN 0 ELSE Head(counts) + Total(Tail(counts))

\* instance.ngettext(singular, plural, n), while fewer than MaxLookups
\* lookups have compiled a rule
Ngettext(c, singular, plural, n) ==
    \E r \in {ngettext(_entries, _plural_entries, _info[c], singular, plural,
                       n)} :
        /\ status[c] = "loaded"
        /\ Total(rule_lookups) < MaxLookups
        /\ done' = Done("ngettext", c, r.err, r.text, singular, plural, n,
                        NoView)
        /\ compiles' = [compiles EXCEPT
                           ![c] = IF r.reached THEN @ + c2py_calls(@) ELSE @]
        /\ rule_lookups' = [rule_lookups EXCEPT
                               ![c] = IF r.reached THEN @ + 1 ELSE @]
        /\ UNCHANGED <<_entries, _plural_entries, _info, status, at_load,
                       plural_vars, reader_vars>>

Next ==
    \/ \E c \in Catalogs, f \in DOMAIN CatalogFiles : Load(c, f)
    \/ \E c \in Catalogs, message \in Messages : Gettext(c, message)
    \/ \E c \in Catalogs, l \in Lookups, n \in Counts :
          Ngettext(c, l[1], l[2], n)

Spec == Init /\ [][Next]_vars

\* SpecPlural: an expression is given, nothing is compiled yet
InitPlural ==
    /\ expr \in Exprs
    /\ phase = "text"
    /\ rule = NoFunc
    /\ called = 0
    /\ returned = NoValue
    /\ ReaderIdle
    /\ CatalogIdle

NextPlural ==
    \/ Compile
    \/ \E n \in 0..MaxN : Call(n)

SpecPlural == InitPlural /\ [][NextPlural]_vars

\* SpecReader: PoFileReader(PoFileEntry, file) returned, the constructor
\* did not raise
InitReader ==
    \E file \in PoFiles :
        \E r \in {reader_init(file)} :
            /\ r.err = NoError
            /\ _peek = r.peek
            /\ _tokens = r.tokens
            /\ pulled = NoPull
            /\ PluralIdle
            /\ CatalogIdle

NextReader == Pull

SpecReader == InitReader /\ [][NextReader]_vars

(***************************************************************************)
(* Properties of PoFileReader.__next__, under SpecReader                   *)
(***************************************************************************)
\* the comment tokens at the head of what a pull found waiting
RECURSIVE CommentPrefix(_)
CommentPrefix(head) ==
    IF head # <<>> /\ IsComment(Head(head))
    THEN <<Head(head)>> \o CommentPrefix(Tail(head))
    ELSE <<>>

\* a subtype comes back after a comment of another subtype
Reappears(toks) ==
    \E i, k \in 1..Len(toks) :
        /\ i < k
        /\ toks[i].type = toks[k].type
        /\ \E j \in (i + 1)..(k - 1) : toks[j].type # toks[i].type

\* the values of the tokens of one type, in order
RECURSIVE ValuesOf(_, _)
ValuesOf(toks, type) ==
    IF toks = <<>> THEN <<>>
    ELSE IF Head(toks).type = type
         THEN <<Head(toks).value>> \o ValuesOf(Tail(toks), type)
    ELSE ValuesOf(Tail(toks), type)

IsCommentKey(key) == key # <<>> /\ key[1] = "#"

\* the keywords of the keyword and string tokens that follow the comments
RECURSIVE KeywordRun(_)
KeywordRun(toks) ==
    IF toks = <<>> \/ Head(toks).type \notin {T_keyword, T_string} THEN <<>>
    ELSE IF Head(toks).type = T_keyword
         THEN <<Head(toks).value>> \o KeywordRun(Tail(toks))
    ELSE KeywordRun(Tail(toks))

EntryTokens(head) == From(head, Len(CommentPrefix(head)))

RepeatsKeyword(head) ==
    LET ks == KeywordRun(EntryTokens(head))
    IN  \E i, k \in 1..Len(ks) : i < k /\ ks[i] = ks[k]

\* C2: an entry in which a keyword occurs twice is refused with
\* DuplicateKeyword; no entry is returned in which a later occurrence of a
\* keyword replaced an earlier one
C2_DuplicateKeywordRefused ==
    RepeatsKeyword(pulled.head) => pulled.err # NoError

\* C3: a pull fails with DiscontinuousComment exactly when, among the
\* comments at the head of the entry, a subtype comes back after another
\* subtype; and the entry returned holds each subtype's lines as one run
C3_DiscontinuousExactly ==
    LET toks == CommentPrefix(pulled.head)
    IN  /\ (pulled.err = "Discontinuous comment") <=> Reappears(toks)
        /\ pulled.err = NoError =>
               \A k \in 1..Len(pulled.entry) :
                   IsCommentKey(pulled.entry[k][1]) =>
                       pulled.entry[k][2] = ValuesOf(toks, pulled.entry[k][1])

\* C3: a pull was refused for a subtype that came back
C3_Witness ==
    /\ pulled.err = "Discontinuous comment"
    /\ Len(CommentPrefix(pulled.head)) >= 3

\* C10: every entry returned has at least one keyword field with at least
\* one string line
C10_EntryHasKeyword ==
    pulled.err = NoError =>
        \E k \in 1..Len(pulled.entry) :
            /\ ~IsCommentKey(pulled.entry[k][1])
            /\ Len(pulled.entry[k][2]) >= 1

(***************************************************************************)
(* Properties of c2py and of the function it returns, under SpecPlural     *)
(***************************************************************************)
\* the tokens of the expression, without the end marker
ExprTokens == LET toks == plural_tokenize(expr) IN SubSeq(toks, 1, Len(toks) - 1)
ExprUses(ops) == \E k \in 1..Len(ExprTokens) : ExprTokens[k] \in ops
ExprOnlyUses(ops) ==
    \A k \in 1..Len(ExprTokens) :
        \/ ExprTokens[k] \in ops \cup {<<"n">>, <<"(">>, <<")">>}
        \/ IsDecimal(ExprTokens[k])

ArithmeticOps == {<<"+">>, <<"-">>, <<"*">>, <<"/">>, <<"%">>}
ComparisonCount ==
    Cardinality({k \in 1..Len(ExprTokens) : ExprTokens[k] \in RelationalOps})

\* the function was called on the value in called
Called == phase = "called" /\ CParse(expr).ok

\* C7: the function of an expression of +, -, * and / returns the value the
\* expression has in C, where / truncates toward zero, whenever no divisor
\* is zero
C7_DivisionTruncates ==
    (/\ Called
     /\ ExprOnlyUses({<<"+">>, <<"-">>, <<"*">>, <<"/">>})
     /\ ExprUses({<<"/">>})
     /\ CValue(expr, called).ok)
        => returned = CValue(expr, called)

\* C8: the function of an accepted expression without / and % returns, for
\* n >= 0, the value the expression has in C
C8_ValueAsInC ==
    (Called /\ ~ExprUses({<<"/">>, <<"%">>}))
        => returned = CValue(expr, called)

\* whether a tree of the generated text has a comparison with two operators
RECURSIVE HasChain(_)
HasChain(t) ==
    CASE t[1] \in {"n", "num"} -> FALSE
      [] t[1] = "bin" -> HasChain(t[3]) \/ HasChain(t[4])
      [] t[1] = "cmp" ->
            \/ Len(t[3]) >= 2
            \/ HasChain(t[2])
            \/ \E k \in 1..Len(t[3]) : HasChain(t[3][k][2])
      [] t[1] = "not" -> HasChain(t[2])
      [] t[1] \in {"and", "or"} -> HasChain(t[2]) \/ HasChain(t[3])
      [] t[1] = "if" -> HasChain(t[2]) \/ HasChain(t[3]) \/ HasChain(t[4])

\* C9: the generated text has no comparison of two operators in a row; and
\* the function of an expression of comparisons and arithmetic returns the
\* value of the expression grouped as in C, the quotient and remainder
\* being those of the generated text
C9_ComparisonsGrouped ==
    /\ (phase # "text" /\ rule.err = NoError)
           => ~HasChain(PyParse(rule.func).tree)
    /\ (Called /\ ExprOnlyUses(ArithmeticOps \cup RelationalOps))
           => returned = RefEval(CParse(expr).tree, called, TRUE)

\* C9: an expression with two comparisons in a row and no parenthesis of
\* its own was compiled to a text with a parenthesis, and called
C9_Witness ==
    /\ Called
    /\ ComparisonCount = 2
    /\ Len(ExprTokens) = 5
    /\ \E k \in 1..Len(rule.func) : rule.func[k] = "("
    /\ returned.ok

(***************************************************************************)
(* Properties of PoFileTranslations, under Spec                            *)
(***************************************************************************)
\* the value _parse stores for the header line of S_rule
RuleValue == Strip(From(Upto(S_rule, Len(S_rule) - 2), Len(K_Plural_Forms) + 1))

\* the entry a plural lookup selects, when there is one
Selected ==
    IF done.n = 1
    THEN IF done.a \in DOMAIN _entries THEN <<_entries[done.a]>> ELSE <<>>
    ELSE IF done.b \in DOMAIN _plural_entries
         THEN <<_plural_entries[done.b]>> ELSE <<>>

\* the lines of msgstr[k] of an entry put together, empty when it has none
FormOf(entry, k) ==
    LET key == K_msgstr \o <<"[">> \o StrOfInt(k) \o <<"]">>
    IN  IF key \in Keys(entry) THEN Concat(Get(entry, key)) ELSE <<>>

\* C1: with the rule (n != 1) in the header, a plural lookup of an entry
\* that exists does not fail, and returns msgstr[0] of the entry for n = 1
\* and msgstr[1] otherwise, the empty string when the entry has no such form
C1_PluralLookupReturnsForm ==
    (/\ done.op = "ngettext"
     /\ K_Plural_Forms \in DOMAIN _info[done.cat]
     /\ _info[done.cat][K_Plural_Forms] = RuleValue
     /\ Selected # <<>>)
        => /\ done.err = NoError
           /\ done.text = FormOf(Selected[1], IF done.n = 1 THEN 0 ELSE 1)

\* C4: the three dicts of an instance whose load completed are those it had
\* when the load returned
C4_MapsFrozenAfterLoad ==
    \A c \in Catalogs : status[c] = "loaded" => View(c) = at_load[c]

C6_FailedLoadLeavesNothing ==
    (done.op = "load" /\ done.err # NoError)
        => /\ done.err # KeyError
           /\ _entries = done.before.entries
           /\ _plural_entries = done.before.plural_entries
           /\ _info[done.cat] = EmptyDict

====
